---- MODULE Spec2Model ----
(***************************************************************************)
(* Model of the two provisioning scripts of the repository:               *)
(*   run.py                  (sudo python3 run.py setup)                   *)
(*   setup_raspberry_pi.py   (sudo python3 setup_raspberry_pi.py)          *)
(* A process is one invocation of a script.  Its observable effects (the   *)
(* shell commands it runs, the files it writes, its console lines and its  *)
(* prompt) are recorded in order in `trace`; the files the claims are      *)
(* about (.env and .bashrc) persist from one invocation to the next.       *)
(* Text is modelled as a sequence of one-character strings so that strip,  *)
(* lstrip, split, int and the substring tests are computed as Python       *)
(* computes them.                                                          *)
(***************************************************************************)
EXTENDS Integers, Sequences, FiniteSets, TLC

\* ------------------------------------------------------------------ bounds
\* number of invocations of a script in one behaviour
MaxRuns == 2

\* ------------------------------------------------------- program constants
MIN_FREE_GB == 4
MIN_RAM_MB == 2048
MIN_NODE_MAJOR == 18
\* exit statuses the external commands are given
ExitCodes == {0, 1, 127}
\* run.py and setup_raspberry_pi.py print this many trailing characters of a
\* failed command's output
TAIL_RUN == 600
TAIL_PI == 500
\* exit_code of a process that has not ended
RUNNING == -1

\* ----------------------------------------------------------- literal texts
PLACEHOLDER ==
    <<"y", "o", "u", "r", "-", "a", "p", "i", "-", "k", "e", "y", "-", "h", "e", "r", "e">>
VAR_NAME ==
    <<"A", "N", "T", "H", "R", "O", "P", "I", "C", "_", "A", "P", "I", "_", "K", "E", "Y">>
ENV_COMMENT_LINE ==
    <<"#", " ", "P", "a", "s", "t", "e", " ", "y", "o", "u", "r", " ", "A", "n", "t", "h", "r", "o", "p", "i", "c", " ", "A", "P", "I", " ", "k", "e", "y", " ", "b", "e", "l", "o", "w", "\n">>
ENV_PLACEHOLDER_LINE ==
    <<"A", "N", "T", "H", "R", "O", "P", "I", "C", "_", "A", "P", "I", "_", "K", "E", "Y", "=", "y", "o", "u", "r", "-", "a", "p", "i", "-", "k", "e", "y", "-", "h", "e", "r", "e", "\n">>
ENV_KEY_PREFIX ==
    <<"A", "N", "T", "H", "R", "O", "P", "I", "C", "_", "A", "P", "I", "_", "K", "E", "Y", "=">>
BASHRC_PREFIX ==
    <<"\n", "#", " ", "A", "n", "t", "h", "r", "o", "p", "i", "c", " ", "A", "P", "I", " ", "K", "e", "y", "\n", "e", "x", "p", "o", "r", "t", " ", "A", "N", "T", "H", "R", "O", "P", "I", "C", "_", "A", "P", "I", "_", "K", "E", "Y", "=", "\"">>
BASHRC_SUFFIX ==
    <<"\"", "\n">>
SETUP_WORD ==
    <<"s", "e", "t", "u", "p">>
\* the capitals of the letters of SETUP_WORD
SETUP_CAPITALS ==
    <<"S", "E", "T", "U", "P">>
DIGITS ==
    <<"0", "1", "2", "3", "4", "5", "6", "7", "8", "9">>
\* The decimal digits int() takes besides the ASCII ones (Unicode category
\* Nd), one row per script, each row from the digit zero to the digit nine.
\* These are the rows a TLA+ string can hold; the digits of the other scripts
\* (such as U+0660..U+0669) are taken by int() too, and no text here can
\* contain them.
UNICODE_DIGITS ==
    <<<<"۰", "۱", "۲", "۳", "۴", "۵", "۶", "۷", "۸", "۹">>,   \* U+06F0 Extended Arabic-Indic
      <<"߀", "߁", "߂", "߃", "߄", "߅", "߆", "߇", "߈", "߉">>,   \* U+07C0 Nko
      <<"০", "১", "২", "৩", "৪", "৫", "৬", "৭", "৮", "৯">>,   \* U+09E6 Bengali
      <<"૦", "૧", "૨", "૩", "૪", "૫", "૬", "૭", "૮", "૯">>,   \* U+0AE6 Gujarati
      <<"௦", "௧", "௨", "௩", "௪", "௫", "௬", "௭", "௮", "௯">>,   \* U+0BE6 Tamil
      <<"೦", "೧", "೨", "೩", "೪", "೫", "೬", "೭", "೮", "೯">>,   \* U+0CE6 Kannada
      <<"෦", "෧", "෨", "෩", "෪", "෫", "෬", "෭", "෮", "෯">>,   \* U+0DE6 Sinhala Lith
      <<"໐", "໑", "໒", "໓", "໔", "໕", "໖", "໗", "໘", "໙">>,   \* U+0ED0 Lao
      <<"႐", "႑", "႒", "႓", "႔", "႕", "႖", "႗", "႘", "႙">>,   \* U+1090 Myanmar Shan
      <<"០", "១", "២", "៣", "៤", "៥", "៦", "៧", "៨", "៩">>,   \* U+17E0 Khmer
      <<"᧐", "᧑", "᧒", "᧓", "᧔", "᧕", "᧖", "᧗", "᧘", "᧙">>,   \* U+19D0 New Tai Lue
      <<"᪀", "᪁", "᪂", "᪃", "᪄", "᪅", "᪆", "᪇", "᪈", "᪉">>,   \* U+1A80 Tai Tham Hora
      <<"᪐", "᪑", "᪒", "᪓", "᪔", "᪕", "᪖", "᪗", "᪘", "᪙">>,   \* U+1A90 Tai Tham Tham
      <<"᮰", "᮱", "᮲", "᮳", "᮴", "᮵", "᮶", "᮷", "᮸", "᮹">>,   \* U+1BB0 Sundanese
      <<"꣐", "꣑", "꣒", "꣓", "꣔", "꣕", "꣖", "꣗", "꣘", "꣙">>,   \* U+A8D0 Saurashtra
      <<"꧐", "꧑", "꧒", "꧓", "꧔", "꧕", "꧖", "꧗", "꧘", "꧙">>,   \* U+A9D0 Javanese
      <<"꧰", "꧱", "꧲", "꧳", "꧴", "꧵", "꧶", "꧷", "꧸", "꧹">>,   \* U+A9F0 Myanmar Tai Laing
      <<"꯰", "꯱", "꯲", "꯳", "꯴", "꯵", "꯶", "꯷", "꯸", "꯹">>>>   \* U+ABF0 Meetei Mayek

\* Characters outside the TLA+ escapes stand in the strings as themselves.
\* U+001C..U+001F, the separators: str.strip() removes them, int() does not skip them
SEPARATORS == {"", "", "", ""}
\* the ASCII characters both str.strip() and int() skip: space \t \n \r \f and U+000B
ASCII_SPACE == {"\t", "\n", "", "\f", "\r", " "}
\* the other characters both skip that a TLA+ string can hold: U+0085, U+00A0,
\* U+1680.  (U+2000..U+200A, U+2028, U+2029, U+202F, U+205F and U+3000 are
\* skipped too; no text here can contain them.)
UNICODE_SPACE == {"", " ", " "}
\* characters int() skips around the number
INT_WHITESPACE == ASCII_SPACE \cup UNICODE_SPACE
\* characters str.strip() removes
WHITESPACE == INT_WHITESPACE \cup SEPARATORS

\* --------------------------------------------------------- input alphabets
KEY_A ==
    <<"s", "k", "-", "A">>
KEY_B ==
    <<"s", "k", "-", "B">>
KEY_A_PADDED ==
    <<" ", "", "s", "k", "-", "A", "\t", "">>
KEY_BLANK ==
    <<" ", "\t", " ">>
KEY_INNER_SPACE ==
    <<"s", " ", "k">>
KEY_WITH_PLACEHOLDER ==
    <<"y", "o", "u", "r", "-", "a", "p", "i", "-", "k", "e", "y", "-", "h", "e", "r", "e">>
KEY_WITH_VAR_NAME ==
    <<"x", "A", "N", "T", "H", "R", "O", "P", "I", "C", "_", "A", "P", "I", "_", "K", "E", "Y">>
BASHRC_PLAIN ==
    <<"a", "l", "i", "a", "s", " ", "l", "l", "=", "'", "l", "s", " ", "-", "l", "'", "\n">>
BASHRC_EXPORTED ==
    <<"e", "x", "p", "o", "r", "t", " ", "A", "N", "T", "H", "R", "O", "P", "I", "C", "_", "A", "P", "I", "_", "K", "E", "Y", "=", "\"", "s", "k", "-", "o", "l", "d", "\"", "\n">>
BASHRC_MENTION ==
    <<"#", " ", "s", "e", "t", " ", "A", "N", "T", "H", "R", "O", "P", "I", "C", "_", "A", "P", "I", "_", "K", "E", "Y", " ", "l", "a", "t", "e", "r", "\n">>
ENV_USER_KEY ==
    <<"A", "N", "T", "H", "R", "O", "P", "I", "C", "_", "A", "P", "I", "_", "K", "E", "Y", "=", "s", "k", "-", "o", "l", "d", "\n">>
ENV_OTHER ==
    <<"F", "O", "O", "=", "b", "a", "r", "\n">>
ARG_SETUP ==
    <<"s", "e", "t", "u", "p">>
ARG_SETUP_UPPER ==
    <<"S", "E", "T", "U", "P">>
ARG_SETUP_MIXED ==
    <<"S", "e", "t", "U", "p">>
ARG_HELP ==
    <<"h", "e", "l", "p">>
ARG_SETUP_SPACE ==
    <<"s", "e", "t", "u", "p", " ">>
ARG_PREFIX ==
    <<"s", "e", "t">>
ARG_LONGER ==
    <<"s", "e", "t", "u", "p", "s">>
ARG_ACCENT ==
    <<"S", "É", "T", "U", "P">>
ARG_GREEK ==
    <<"Σ", "Ε", "Τ", "U", "P">>
NODE_V20 ==
    <<"v", "2", "0", ".", "1", "1", ".", "0", "\n">>
NODE_V18 ==
    <<"v", "1", "8", ".", "0", ".", "0", "\n">>
NODE_V16 ==
    <<"v", "1", "6", ".", "2", "0", ".", "2", "\n">>
NODE_V9 ==
    <<"v", "9", ".", "1", "1", ".", "2", "\n">>
NODE_NODOT ==
    <<"v", "2", "1", "\n">>
NODE_GARBAGE ==
    <<"v", "n", "e", "x", "t", ".", "1", "\n">>
NODE_VV ==
    <<"v", "v", "2", "2", ".", "1", ".", "0", "\n">>
NODE_SPACED ==
    <<"v", " ", "1", "9", " ", ".", "0", ".", "0", "\n">>
NODE_SIGNED ==
    <<"v", "+", "1", "7", ".", "0", ".", "0", "\n">>
NODE_UNDERSCORE ==
    <<"v", "1", "_", "9", ".", "0", ".", "0", "\n">>
NODE_V20_PERSIAN ==
    <<"v", "۲", "۰", ".", "1", ".", "0", "\n">>
NODE_V16_MIXED ==
    <<"v", "1", "৬", ".", "0", ".", "0", "\n">>
NODE_NEG ==
    <<"v", "-", "2", "0", ".", "0", ".", "0", "\n">>


\* ------------------------------------------------------- text (str) helpers
MinOf(S) == CHOOSE x \in S : \A y \in S : x <= y
MaxOf(S) == CHOOSE x \in S : \A y \in S : x >= y

\* Python: needle in hay
Contains(hay, needle) ==
    \E i \in 1..(Len(hay) - Len(needle) + 1) :
        SubSeq(hay, i, i + Len(needle) - 1) = needle

\* input() taken as it comes, without .strip()
strip_omitted(s) == s

\* s without the leading and trailing characters of ws
strip_of(s, ws) ==
    LET keep == {i \in 1..Len(s) : s[i] \notin ws}
    IN  IF keep = {} THEN <<>> ELSE SubSeq(s, MinOf(keep), MaxOf(keep))

\* Python: s.strip()
strip(s) == strip_of(s, WHITESPACE)

\* Python: s.lstrip(chars)
lstrip(s, chars) ==
    LET keep == {i \in 1..Len(s) : s[i] \notin chars}
    IN  IF keep = {} THEN <<>> ELSE SubSeq(s, MinOf(keep), Len(s))

\* Python: s.split(sep)[0], sep one character
split_first(s, sep) ==
    LET at == {i \in 1..Len(s) : s[i] = sep}
    IN  IF at = {} THEN s ELSE SubSeq(s, 1, MinOf(at) - 1)

\* every row of decimal digits: c is a digit when a row holds it, and its
\* value is its place in that row
DIGIT_ROWS == <<DIGITS>> \o UNICODE_DIGITS
IsDigit(c) == \E r \in 1..Len(DIGIT_ROWS) : \E i \in 1..Len(DIGITS) : DIGIT_ROWS[r][i] = c
DigitVal(c) ==
    LET r == CHOOSE r \in 1..Len(DIGIT_ROWS) : \E i \in 1..Len(DIGITS) : DIGIT_ROWS[r][i] = c
    IN  (CHOOSE i \in 1..Len(DIGITS) : DIGIT_ROWS[r][i] = c) - 1

RECURSIVE DigitsValue(_, _)
DigitsValue(body, acc) ==
    IF body = <<>> THEN acc
    ELSE IF Head(body) = "_" THEN DigitsValue(Tail(body), acc)
    ELSE DigitsValue(Tail(body), 10 * acc + DigitVal(Head(body)))

\* Python: int(s) for a str.  ok = FALSE stands for ValueError.
\* Accepted: surrounding whitespace (INT_WHITESPACE), one sign, decimal
\* digits of any script (DIGIT_ROWS), single underscores between digits.
py_int(s) ==
    LET t    == strip_of(s, INT_WHITESPACE)
        neg  == t # <<>> /\ Head(t) = "-"
        body == IF t # <<>> /\ Head(t) \in {"+", "-"} THEN Tail(t) ELSE t
        wellformed ==
            /\ body # <<>>
            /\ \A i \in 1..Len(body) : IsDigit(body[i]) \/ body[i] = "_"
            /\ body[1] # "_" /\ body[Len(body)] # "_"
            /\ \A i \in 1..(Len(body) - 1) : ~(body[i] = "_" /\ body[i + 1] = "_")
    IN  IF wellformed
        THEN [ok |-> TRUE,
              val |-> IF neg THEN 0 - DigitsValue(body, 0) ELSE DigitsValue(body, 0)]
        ELSE [ok |-> FALSE, val |-> 0]

\* the leading token both scripts hand to int(): stdout.strip().lstrip("v").split(".")[0]
version_str(stdout) == lstrip(strip(stdout), {"v"})
major_token(stdout) == split_first(version_str(stdout), ".")

\* run.py node_major(): the parsed major, 0 on any exception
node_major(stdout) ==
    LET p == py_int(major_token(stdout))
    IN  IF p.ok THEN p.val ELSE 0


\* ------------------------------------------------------------------- state
VARIABLES
    pc,         \* where the workflow stands: the function that runs next
    argv,       \* sys.argv[1:] of the running process, each a text
    host,       \* the host facts the process observes
    trace,      \* effects of the running process, in order
    exit_code,  \* its exit status, RUNNING while it runs
    key,        \* the API-key prompt: [read, line, text], the line input()
                \* returned and the local `key` made of it
    env_file,   \* <base>/.env : [exists, text]
    bashrc,     \* ~/.bashrc   : [exists, text]
    artifacts,  \* the other paths under <base> that exist
    runs,       \* invocations so far
    other       \* where a second invocation on the same home stands:
                \* "idle" (not running) or "prompt" (waiting in input())

vars == <<pc, argv, host, trace, exit_code, key, env_file, bashrc, artifacts, runs, other>>

ABSENT == [exists |-> FALSE, text |-> <<>>]
File(text) == [exists |-> TRUE, text |-> text]
NO_KEY == [read |-> FALSE, line |-> <<>>, text |-> <<>>]

\* ------------------------------------------------------------ host facts
\* what a failing command has printed (stdout and stderr together)
OUT_SHORT ==
    <<"b", "o", "o", "m", ":", " ", "n", "o", " ", "r", "o", "u", "t", "e", "\n">>
OUT_LONG == [i \in 1..601 |-> DIGITS[(i % 10) + 1]]
Outputs == {<<>>, OUT_SHORT, OUT_LONG}
\* how a command ends: exit status and captured output.  The output of a
\* command that exits 0 is captured and never read, so it is left empty.
OK_RESULT == [rc |-> 0, out |-> <<>>]
Results ==
    {OK_RESULT} \cup
    {[rc |-> c, out |-> o] : c \in ExitCodes \ {0}, o \in Outputs}

\* 1024 ** 3 = HALF_GIB * HALF_GIB
HALF_GIB == 32768
KB_PER_MB == 1024

\* a root host that passes preflight() with no tool installed and on which
\* every command exits 0; failing: the runs of commands that exit non-zero
BaseHost ==
    [root |-> TRUE, arch |-> "aarch64", model |-> TRUE,
     memtotal_kb |-> 4194304, f_bavail |-> 2097152, f_frsize |-> 4096,
     has_docker |-> FALSE, has_node |-> FALSE, node_stdout |-> <<>>,
     has_compose_bin |-> FALSE, has_claude |-> FALSE, failing |-> {}]

\* node on PATH and what `node --version` prints
NodeStates ==
    {[has |-> FALSE, out |-> <<>>]} \cup
    {[has |-> TRUE, out |-> v] :
        v \in {NODE_V20, NODE_V18, NODE_V16, NODE_GARBAGE, <<>>,
               NODE_V20_PERSIAN, NODE_V16_MIXED}}

InfoHosts ==
    {[BaseHost EXCEPT !.root = FALSE]} \cup
    {[BaseHost EXCEPT !.arch = a] : a \in {"armv7l", "x86_64"}} \cup
    {[BaseHost EXCEPT !.model = FALSE]} \cup
    {[BaseHost EXCEPT !.memtotal_kb = m] : m \in {2097151, 2097152}} \cup
    {[BaseHost EXCEPT !.f_bavail = b] : b \in {786432, 1048575, 1048576}} \cup
    {[BaseHost EXCEPT !.f_frsize = 512],
     [BaseHost EXCEPT !.f_frsize = 512, !.f_bavail = 8388608]}

ToolHosts ==
    {[BaseHost EXCEPT !.has_docker = TRUE]} \cup
    {[BaseHost EXCEPT !.has_node = n.has, !.node_stdout = n.out] : n \in NodeStates}

\* one run of a command that exits non-zero: the nth run of cmd in a process
Failure(cmd, nth, res) == [cmd |-> cmd, nth |-> nth, rc |-> res.rc, out |-> res.out]
BOOM == [rc |-> 1, out |-> OUT_SHORT]

\* the commands run.py runs through run()
PING == "ping -c1 -W3 google.com"
RUN_COMMANDS ==
    {PING, "apt-get update -y -qq", "apt-get upgrade -y -qq",
     "apt-get install -y -qq curl wget git ca-certificates gnupg lsb-release",
     "curl -fsSL https://get.docker.com -o /tmp/get-docker.sh", "sh /tmp/get-docker.sh",
     "systemctl enable docker && systemctl start docker", "usermod -aG docker {user}",
     "docker compose version", "apt-get install -y -qq docker-compose-plugin",
     "apt-get remove -y -qq nodejs",
     "curl -fsSL https://deb.nodesource.com/setup_20.x | bash -",
     "apt-get install -y -qq nodejs",
     "npm install -g @anthropic-ai/claude-code --loglevel=warn",
     "apt-get install -y -qq python3-pip python3-venv", "pip3 install --user anthropic",
     "chown -R {user}:{user} {base}"}
\* those whose run depends on the tools found on the host
TOOL_COMMANDS ==
    {"systemctl enable docker && systemctl start docker", "apt-get remove -y -qq nodejs",
     "curl -fsSL https://deb.nodesource.com/setup_20.x | bash -",
     "apt-get install -y -qq nodejs"}

\* the failures a host is given: one command, one command with each status
\* and output, the ping together with a later command, every command
RunFailures ==
    {{Failure(c, 1, BOOM)} : c \in RUN_COMMANDS} \cup
    {{Failure("apt-get update -y -qq", 1, r)} : r \in Results \ {OK_RESULT}} \cup
    {{Failure(PING, 1, BOOM), Failure(c, 1, BOOM)} :
        c \in {"docker compose version", "apt-get update -y -qq",
               "pip3 install --user anthropic", "chown -R {user}:{user} {base}"}} \cup
    {{Failure(c, 1, BOOM) : c \in RUN_COMMANDS}}

Hosts ==
    InfoHosts \cup ToolHosts \cup
    {[BaseHost EXCEPT !.failing = p] : p \in RunFailures} \cup
    {[h EXCEPT !.failing = {Failure(c, 1, BOOM)}] : h \in ToolHosts, c \in TOOL_COMMANDS}

Argvs ==
    {<<>>, <<ARG_SETUP>>, <<ARG_SETUP_MIXED, ARG_HELP>>, <<ARG_HELP>>,
     <<ARG_SETUP_SPACE>>, <<ARG_PREFIX>>, <<ARG_LONGER>>, <<<<>>>>,
     <<ARG_HELP, ARG_SETUP_UPPER>>, <<ARG_ACCENT>>, <<ARG_GREEK>>}

\* what input() yields: a line without its newline, or EOFError
KeyLines ==
    {<<>>, KEY_BLANK, KEY_A, KEY_B, KEY_A_PADDED, KEY_INNER_SPACE,
     KEY_WITH_PLACEHOLDER, KEY_WITH_VAR_NAME}
\* the answers a second invocation is given
OtherKeyLines == {<<>>, KEY_A, KEY_B}

Inputs ==
    {[eof |-> FALSE, line |-> l] : l \in KeyLines} \cup {[eof |-> TRUE, line |-> <<>>]}

InitEnvFiles ==
    {ABSENT, File(ENV_COMMENT_LINE \o ENV_PLACEHOLDER_LINE), File(ENV_USER_KEY),
     File(ENV_OTHER), File(<<>>)}
InitBashrcs ==
    {ABSENT, File(BASHRC_PLAIN), File(BASHRC_EXPORTED), File(BASHRC_MENTION)}

\* ------------------------------------------------ effects of one process
\* out: the output a failed command hands to the handler (e.stdout) and the
\* text a "tail" event prints; empty in every other event
Ev(kind, arg, rc, check) ==
    [ev |-> kind, arg |-> arg, rc |-> rc, check |-> check, out |-> <<>>]
Msg(kind, text) == Ev(kind, text, 0, FALSE)

Alive(s) == s.exit = RUNNING
emit(s, e) == IF Alive(s) THEN [s EXCEPT !.trace = Append(@, e)] ELSE s
sys_exit(s, code) == IF Alive(s) THEN [s EXCEPT !.exit = code] ELSE s

ok(s, msg)   == emit(s, Msg("ok", msg))
warn(s, msg) == emit(s, Msg("warn", msg))
err(s, msg)  == emit(s, Msg("err", msg))
info(s, msg) == emit(s, Msg("info", msg))
print(s, msg) == emit(s, Msg("print", msg))

\* how the command cmd ends on host h when the process has the effects tr:
\* h.failing names the runs of commands that exit non-zero on it, cmd the
\* command and nth which of its runs in the process; every other run exits 0
runs_of(tr, cmd) == Cardinality({i \in 1..Len(tr) : tr[i].ev = "cmd" /\ tr[i].arg = cmd})
result(h, tr, cmd) ==
    LET hit == {f \in h.failing : f.cmd = cmd /\ f.nth = runs_of(tr, cmd) + 1}
    IN  IF hit = {} THEN OK_RESULT
        ELSE LET f == CHOOSE f \in hit : TRUE IN [rc |-> f.rc, out |-> f.out]

\* Python: s[-n:]
tail(s, n) == IF Len(s) <= n THEN s ELSE SubSeq(s, Len(s) - n + 1, Len(s))
\* if e.stdout: print(e.stdout[-n:])
print_tail(s, out, n) ==
    IF out # <<>>
    THEN emit(s, [Ev("tail", "e.stdout", 0, FALSE) EXCEPT !.out = tail(out, n)])
    ELSE s

\* subprocess.run(..., check=check) raises CalledProcessError
CalledProcessError(check, rc) == check /\ rc # 0

\* run() that reports a failed command and returns False without ending the process
run_no_exit(s, cmd, desc, check, res) ==
    LET s1 == IF desc # "" THEN info(s, desc) ELSE s
        s2 == emit(s1, [Ev("cmd", cmd, res.rc, check) EXCEPT
                            !.out = IF CalledProcessError(check, res.rc)
                                    THEN res.out ELSE <<>>])
    IN  IF CalledProcessError(check, res.rc)
        THEN [st |-> print_tail(err(s2, "Failed: " \o cmd), res.out, TAIL_RUN),
              ret |-> FALSE]
        ELSE [st |-> s2, ret |-> TRUE]

\* run() that ends the process on every non-zero exit, whatever check is
run_exit_always(s, cmd, desc, check, res) ==
    LET s1 == IF desc # "" THEN info(s, desc) ELSE s
        s2 == emit(s1, [Ev("cmd", cmd, res.rc, check) EXCEPT
                            !.out = IF res.rc # 0 THEN res.out ELSE <<>>])
    IN  IF res.rc # 0
        THEN [st |-> sys_exit(print_tail(err(s2, "Failed: " \o cmd), res.out, TAIL_RUN), 1),
              ret |-> FALSE]
        ELSE [st |-> s2, ret |-> TRUE]

\* run.py run(cmd, desc, check): [st, ret]; res is how the command ends
run(s, cmd, desc, check, res) ==
    LET s1 == IF desc # "" THEN info(s, desc) ELSE s
        s2 == emit(s1, [Ev("cmd", cmd, res.rc, check) EXCEPT
                            !.out = IF CalledProcessError(check, res.rc)
                                    THEN res.out ELSE <<>>])
    IN  IF CalledProcessError(check, res.rc)
        THEN LET s3 == print_tail(err(s2, "Failed: " \o cmd), res.out, TAIL_RUN)
                 s4 == IF check THEN sys_exit(s3, 1) ELSE s3
             IN  [st |-> s4, ret |-> FALSE]
        ELSE [st |-> s2, ret |-> TRUE]

\* run(cmd, ...) on host h, the command ending as h makes it end
run_cmd(h, s, cmd, desc, check) == run(s, cmd, desc, check, result(h, s.trace, cmd))

\* the process state before a step, and its state after it
Proc == [trace |-> trace, exit |-> exit_code]
Advance(s, next) ==
    /\ trace' = s.trace
    /\ exit_code' = s.exit
    /\ pc' = IF Alive(s) THEN next ELSE "exited"


\* ------------------------------------------------------------------ run.py
\* (f_bavail * f_frsize) // 1024 ** 3, the product taken in two halves so
\* that no intermediate value exceeds 32 bits:
\* b = hi * HALF_GIB + lo  gives  b * f // HALF_GIB**2
\*                                = (hi * f + lo * f // HALF_GIB) // HALF_GIB
free_gb(h) ==
    LET hi == h.f_bavail \div HALF_GIB
        lo == h.f_bavail % HALF_GIB
    IN  (hi * h.f_frsize + (lo * h.f_frsize) \div HALF_GIB) \div HALF_GIB
ram_mb(h) == h.memtotal_kb \div KB_PER_MB

\* the disk test with the threshold one too low
disk_too_low_off_by_one(gb) == gb < MIN_FREE_GB - 1

\* preflight(): the disk test
disk_too_low(gb) == gb < MIN_FREE_GB

\* preflight()
preflight(s, h) ==
    LET s1 == print(s, "Pre-flight checks")
        s2 == IF ~h.root
              THEN sys_exit(err(s1, "Must be run as root."), 1)
              ELSE s1
        s3 == ok(s2, "Running as root")
        s4 == IF h.arch = "aarch64" THEN ok(s3, "Arch: aarch64 (64-bit)")
              ELSE IF h.arch = "armv7l" THEN warn(s3, "Arch: armv7l (32-bit)")
              ELSE ok(s3, "Arch: " \o h.arch)
        s5 == IF h.model THEN ok(s4, "Device: {model}")
              ELSE warn(s4, "Could not detect Pi model")
        s6 == IF ram_mb(h) < MIN_RAM_MB THEN warn(s5, "RAM: low")
              ELSE ok(s5, "RAM: {ram_mb}MB")
        s7 == IF disk_too_low(free_gb(h))
              THEN sys_exit(err(s6, "Disk: need at least 4GB"), 1)
              ELSE s6
        s8 == ok(s7, "Disk: {free_gb}GB free")
        r  == run_cmd(h, s8, "ping -c1 -W3 google.com", "", FALSE)
    IN  IF r.ret
        THEN ok(r.st, "Internet: connected")
        ELSE sys_exit(err(r.st, "No internet connection"), 1)

\* install_updates()
install_updates(s, h) ==
    LET s1 == print(s, "[1/7] System update")
        r1 == run_cmd(h, s1, "apt-get update -y -qq", "apt update", TRUE)
        r2 == run_cmd(h, r1.st, "apt-get upgrade -y -qq", "apt upgrade", TRUE)
        r3 == run_cmd(h, r2.st,
                  "apt-get install -y -qq curl wget git ca-certificates gnupg lsb-release",
                  "Installing essentials", TRUE)
    IN  ok(r3.st, "System up to date")

\* install_docker()
install_docker(s, h) ==
    LET s1 == print(s, "[2/7] Docker")
        s2 == IF h.has_docker
              THEN warn(s1, "Docker already installed")
              ELSE LET r1 == run_cmd(h, s1, "curl -fsSL https://get.docker.com -o /tmp/get-docker.sh",
                                 "Downloading installer", TRUE)
                       r2 == run_cmd(h, r1.st, "sh /tmp/get-docker.sh",
                                 "Installing Docker", TRUE)
                   IN  r2.st
        r3 == run_cmd(h, s2, "systemctl enable docker && systemctl start docker",
                  "Enabling service", TRUE)
        r4 == run_cmd(h, r3.st, "usermod -aG docker {user}",
                  "Adding {user} to docker group", TRUE)
    IN  ok(r4.st, "Docker ready")

\* install_compose()
install_compose(s, h) ==
    LET s1 == print(s, "[3/7] Docker Compose")
        r1 == run_cmd(h, s1, "docker compose version", "", FALSE)
        s2 == IF r1.ret
              THEN warn(r1.st, "Docker Compose already installed")
              ELSE run_cmd(h, r1.st, "apt-get install -y -qq docker-compose-plugin",
                       "Installing compose plugin", TRUE).st
    IN  ok(s2, "Docker Compose ready")

\* install_node()
install_node(s, h) ==
    LET s1 == print(s, "[4/7] Node.js & npm")
        s2 == IF h.has_node /\ node_major(h.node_stdout) >= MIN_NODE_MAJOR
              THEN warn(s1, "Node already installed")
              ELSE LET s3 == IF h.has_node
                             THEN run_cmd(h, s1, "apt-get remove -y -qq nodejs",
                                      "Removing old node", TRUE).st
                             ELSE s1
                       r2 == run_cmd(h, s3, "curl -fsSL https://deb.nodesource.com/setup_20.x | bash -",
                                 "Adding NodeSource repo", TRUE)
                       r3 == run_cmd(h, r2.st, "apt-get install -y -qq nodejs",
                                 "Installing Node 20", TRUE)
                   IN  r3.st
    IN  ok(s2, "Node & npm ready")

\* install_claude_cli()
install_claude_cli(s, h) ==
    LET s1 == print(s, "[5/7] Claude Code CLI")
        r1 == run_cmd(h, s1, "npm install -g @anthropic-ai/claude-code --loglevel=warn",
                  "Installing via npm", TRUE)
    IN  ok(r1.st, "Claude Code CLI installed")

\* install_python_sdk()
install_python_sdk(s, h) ==
    LET s1 == print(s, "[6/7] Anthropic Python SDK")
        r1 == run_cmd(h, s1, "apt-get install -y -qq python3-pip python3-venv",
                  "Ensuring pip", TRUE)
        r2 == run_cmd(h, r1.st, "pip3 install --user anthropic", "Installing SDK", FALSE)
    IN  ok(r2.st, "Python SDK installed")

\* scaffold() that rewrites .env on every run
env_always_rewritten(f) == TRUE

\* scaffold(): whether the placeholder .env is written
env_needs_placeholder(f) == ~f.exists \/ Contains(f.text, PLACEHOLDER)

\* scaffold(): effects, given whether .env is written
scaffold(s, h, write_env) ==
    LET s1 == print(s, "[7/7] Creating project files")
        s2 == emit(s1, Msg("makedirs", "claude-workspace/workspace"))
        s3 == emit(s2, Msg("write", "docker-compose.yml"))
        s4 == IF write_env THEN emit(s3, Msg("write", ".env")) ELSE s3
        s5 == emit(s4, Msg("write", "start-claude.sh"))
        s6 == emit(s5, Msg("chmod", "start-claude.sh"))
        r  == run_cmd(h, s6, "chown -R {user}:{user} {base}", "", TRUE)
    IN  ok(r.st, "Files created at {base}")

\* ask_key() that appends on every run
bashrc_always_appended(existing) == TRUE

\* ask_key(): whether the export is appended to .bashrc
bashrc_needs_export(existing) == ~Contains(existing, VAR_NAME)

\* ask_key(): the text written to .env and the text appended to .bashrc
env_line(k) == ENV_KEY_PREFIX \o k \o <<"\n">>
export_lines(k) == BASHRC_PREFIX \o k \o BASHRC_SUFFIX

\* the keyword test as a prefix test (startswith)
is_setup_prefix(arg) ==
    /\ Len(arg) >= Len(SETUP_WORD)
    /\ \A i \in 1..Len(SETUP_WORD) : arg[i] \in {SETUP_WORD[i], SETUP_CAPITALS[i]}

\* __main__: arg.lower() == "setup".  Of all characters, str.lower() turns
\* into a letter of "setup" only that letter and its ASCII capital, and it
\* yields one character for each character but U+0130, whose two are not
\* letters of "setup": the lowered argument is the keyword exactly when the
\* argument has its length and holds each of its letters in either case.
is_setup(arg) ==
    /\ Len(arg) = Len(SETUP_WORD)
    /\ \A i \in 1..Len(SETUP_WORD) : arg[i] \in {SETUP_WORD[i], SETUP_CAPITALS[i]}

\* __main__: the dispatch; without an argument cmd is "" and usage() runs
runs_setup(av) == Len(av) > 0 /\ is_setup(av[1])


\* -------------------------------------------------------- run.py: actions
ARTIFACTS == {"claude-workspace/workspace", "docker-compose.yml", "start-claude.sh"}

Init ==
    /\ pc = "idle"
    /\ argv = <<>>
    /\ host = BaseHost
    /\ trace = <<>>
    /\ exit_code = RUNNING
    /\ key = NO_KEY
    /\ env_file \in InitEnvFiles
    /\ bashrc \in InitBashrcs
    /\ artifacts = {}
    /\ runs = 0
    /\ other = "idle"

\* sudo python3 run.py <argv>; the files stay as they are, and no fact of
\* the host is read before setup()
Invoke ==
    /\ pc \in {"idle", "exited"}
    /\ runs < MaxRuns
    /\ \E av \in Argvs : argv' = av
    /\ pc' = "main"
    /\ trace' = <<>>
    /\ exit_code' = RUNNING
    /\ key' = NO_KEY
    /\ host' = BaseHost
    /\ runs' = runs + 1
    /\ UNCHANGED <<env_file, bashrc, artifacts, other>>

\* if __name__ == "__main__": dispatch, and the banner of setup().
\* The host facts setup() will read are fixed here; usage() reads none.
Main ==
    /\ pc = "main"
    /\ IF runs_setup(argv)
       THEN /\ Advance(print(Proc, "Full Auto-Installer"), "preflight")
            /\ \E h \in Hosts : host' = h
       ELSE /\ Advance(Proc, "usage")
            /\ UNCHANGED host
    /\ UNCHANGED <<argv, key, env_file, bashrc, artifacts, runs, other>>

\* usage(), then the script ends
Usage ==
    /\ pc = "usage"
    /\ Advance(sys_exit(print(Proc, "Usage:"), 0), "exited")
    /\ UNCHANGED <<argv, host, key, env_file, bashrc, artifacts, runs, other>>

Preflight ==
    /\ pc = "preflight"
    /\ Advance(preflight(Proc, host), "install_updates")
    /\ UNCHANGED <<argv, host, key, env_file, bashrc, artifacts, runs, other>>

InstallUpdates ==
    /\ pc = "install_updates"
    /\ Advance(install_updates(Proc, host), "install_docker")
    /\ UNCHANGED <<argv, host, key, env_file, bashrc, artifacts, runs, other>>

InstallDocker ==
    /\ pc = "install_docker"
    /\ Advance(install_docker(Proc, host), "install_compose")
    /\ UNCHANGED <<argv, host, key, env_file, bashrc, artifacts, runs, other>>

InstallCompose ==
    /\ pc = "install_compose"
    /\ Advance(install_compose(Proc, host), "install_node")
    /\ UNCHANGED <<argv, host, key, env_file, bashrc, artifacts, runs, other>>

InstallNode ==
    /\ pc = "install_node"
    /\ Advance(install_node(Proc, host), "install_claude_cli")
    /\ UNCHANGED <<argv, host, key, env_file, bashrc, artifacts, runs, other>>

InstallClaudeCli ==
    /\ pc = "install_claude_cli"
    /\ Advance(install_claude_cli(Proc, host), "install_python_sdk")
    /\ UNCHANGED <<argv, host, key, env_file, bashrc, artifacts, runs, other>>

InstallPythonSdk ==
    /\ pc = "install_python_sdk"
    /\ Advance(install_python_sdk(Proc, host), "scaffold")
    /\ UNCHANGED <<argv, host, key, env_file, bashrc, artifacts, runs, other>>

\* scaffold(): the files are written before chown runs
Scaffold ==
    /\ pc = "scaffold"
    /\ LET write_env == env_needs_placeholder(env_file)
       IN  /\ env_file' = IF write_env
                          THEN File(ENV_COMMENT_LINE \o ENV_PLACEHOLDER_LINE)
                          ELSE env_file
           /\ Advance(scaffold(Proc, host, write_env), "ask_key")
    /\ artifacts' = artifacts \cup ARTIFACTS
    /\ UNCHANGED <<argv, host, key, bashrc, runs, other>>

\* ask_key(base), up to the prompt: the process waits in input()
AskKeyPrompt ==
    /\ pc = "ask_key"
    /\ Advance(emit(print(Proc, "-- API Key --"), Msg("input", "Paste your API key")),
               "ask_prompt")
    /\ UNCHANGED <<argv, host, key, env_file, bashrc, artifacts, runs, other>>

\* ask_key(base), from the answer on: input() returns, .env is written and
\* .bashrc is read and appended to as the files are now
AskKeyInput ==
    /\ pc = "ask_prompt"
    /\ \E inp \in Inputs :
        LET k  == strip(inp.line)
            existing == IF bashrc.exists THEN bashrc.text ELSE <<>>
        IN  IF inp.eof
            THEN /\ Advance(sys_exit(emit(Proc, Msg("traceback", "EOFError")), 1), "exited")
                 /\ UNCHANGED <<key, env_file, bashrc>>
            ELSE IF k = <<>>
            THEN /\ Advance(warn(Proc, "Skipped"), "summary")
                 /\ key' = [read |-> TRUE, line |-> inp.line, text |-> k]
                 /\ UNCHANGED <<env_file, bashrc>>
            ELSE /\ key' = [read |-> TRUE, line |-> inp.line, text |-> k]
                 /\ env_file' = File(env_line(k))
                 /\ bashrc' = IF bashrc_needs_export(existing)
                              THEN File(existing \o export_lines(k))
                              ELSE bashrc
                 /\ LET s2 == emit(Proc, Msg("write", ".env"))
                        s3 == IF bashrc_needs_export(existing)
                              THEN emit(s2, Msg("append", ".bashrc"))
                              ELSE s2
                    IN  Advance(ok(s3, "API key saved to .env and ~/.bashrc"), "summary")
    /\ UNCHANGED <<argv, host, artifacts, runs, other>>

\* A second `run.py setup` on the same home, seen through the files it
\* shares with this process.  Its scaffold(): the files are written, the
\* placeholder .env under the same test; then it waits in input().
OtherScaffold ==
    /\ other = "idle"
    /\ runs < MaxRuns
    /\ env_file' = IF env_needs_placeholder(env_file)
                   THEN File(ENV_COMMENT_LINE \o ENV_PLACEHOLDER_LINE)
                   ELSE env_file
    /\ artifacts' = artifacts \cup ARTIFACTS
    /\ runs' = runs + 1
    /\ other' = "prompt"
    /\ UNCHANGED <<pc, argv, host, trace, exit_code, key, bashrc>>

\* Its ask_key() from the answer on: an empty answer writes nothing
OtherAskKey ==
    /\ other = "prompt"
    /\ \E line \in OtherKeyLines :
        LET k == strip(line)
            existing == IF bashrc.exists THEN bashrc.text ELSE <<>>
        IN  IF k = <<>>
            THEN UNCHANGED <<env_file, bashrc>>
            ELSE /\ env_file' = File(env_line(k))
                 /\ bashrc' = IF bashrc_needs_export(existing)
                              THEN File(existing \o export_lines(k))
                              ELSE bashrc
    /\ other' = "idle"
    /\ UNCHANGED <<pc, argv, host, trace, exit_code, key, artifacts, runs>>

\* summary(base), then the script ends
Summary ==
    /\ pc = "summary"
    /\ Advance(sys_exit(print(Proc, "SETUP COMPLETE!"), 0), "exited")
    /\ UNCHANGED <<argv, host, key, env_file, bashrc, artifacts, runs, other>>

\* setup(): the steps in the order setup() calls them
setup ==
    \/ Preflight
    \/ InstallUpdates
    \/ InstallDocker
    \/ InstallCompose
    \/ InstallNode
    \/ InstallClaudeCli
    \/ InstallPythonSdk
    \/ Scaffold
    \/ AskKeyPrompt
    \/ AskKeyInput
    \/ Summary

Next ==
    \/ Invoke
    \/ Main
    \/ Usage
    \/ setup
    \/ OtherScaffold
    \/ OtherAskKey

Spec == Init /\ [][Next]_vars


\* ---------------------------------------------------- setup_raspberry_pi.py
\* the commands setup_raspberry_pi.py runs through run()
PI_COMMANDS ==
    {"apt-get update -y", "apt-get upgrade -y",
     "apt-get install -y curl wget git ca-certificates gnupg lsb-release",
     "docker --version", "curl -fsSL https://get.docker.com -o /tmp/get-docker.sh",
     "sh /tmp/get-docker.sh", "usermod -aG docker {user}", "systemctl enable docker",
     "systemctl start docker", "docker compose version",
     "apt-get install -y docker-compose-plugin", "apt-get remove -y nodejs",
     "curl -fsSL https://deb.nodesource.com/setup_20.x | bash -",
     "apt-get install -y nodejs", "node --version", "npm --version",
     "npm update -g @anthropic-ai/claude-code", "npm install -g @anthropic-ai/claude-code",
     "apt-get install -y python3-pip python3-venv", "pip3 install --user anthropic"}
PI_NODE_COMMANDS ==
    {"apt-get remove -y nodejs", "curl -fsSL https://deb.nodesource.com/setup_20.x | bash -",
     "apt-get install -y nodejs", "node --version"}
\* the commands install_docker() and install_docker_compose() can run twice
PI_REPEATED == {"docker --version", "docker compose version"}

\* the failures a host is given: one run of one command, one command with
\* each status and output, both runs of a repeated command with the same or
\* with different outputs, two commands in a row, every run of every command
PiFailures ==
    {{Failure(c, 1, BOOM)} : c \in PI_COMMANDS} \cup
    {{Failure(c, 2, BOOM)} : c \in PI_REPEATED} \cup
    {{Failure("apt-get update -y", 1, r)} : r \in Results \ {OK_RESULT}} \cup
    {{Failure(c, 1, r1), Failure(c, 2, r2)} :
        c \in PI_REPEATED,
        r1 \in {BOOM, [rc |-> 1, out |-> <<>>]},
        r2 \in {BOOM, [rc |-> 1, out |-> <<>>], [rc |-> 1, out |-> OUT_LONG]}} \cup
    {{Failure("apt-get update -y", 1, BOOM), Failure("apt-get upgrade -y", 1, BOOM)}} \cup
    {{Failure(c, n, BOOM) : c \in PI_COMMANDS, n \in {1, 2}}}

PiToolHosts ==
    {[BaseHost EXCEPT !.has_docker = TRUE, !.has_compose_bin = TRUE, !.has_claude = TRUE]} \cup
    {[BaseHost EXCEPT !.has_node = n.has, !.node_stdout = n.out] : n \in NodeStates}

PiHosts ==
    {[BaseHost EXCEPT !.root = FALSE]} \cup PiToolHosts \cup
    {[h EXCEPT !.failing = p] :
        h \in {BaseHost, [BaseHost EXCEPT !.has_docker = TRUE, !.has_compose_bin = TRUE,
                                          !.has_claude = TRUE]},
        p \in PiFailures} \cup
    {[h EXCEPT !.failing = {Failure(c, 1, BOOM)}] : h \in PiToolHosts, c \in PI_NODE_COMMANDS}

\* the lines typed at the prompt of configure_api_key()
PiInputs ==
    {[eof |-> FALSE, line |-> l] : l \in {<<>>, KEY_A, KEY_B, KEY_A_PADDED}} \cup
    {[eof |-> TRUE, line |-> <<>>]}

\* the answers a second invocation is given
PiOtherKeyLines == {<<>>, KEY_A, KEY_B}

\* run_cmd(h, cmd, description, check): [st, ret]; res is how the command ends
pi_run(s, cmd, desc, check, res) ==
    LET s1 == IF desc # "" THEN info(s, desc) ELSE s
        s2 == emit(s1, [Ev("cmd", cmd, res.rc, check) EXCEPT
                            !.out = IF CalledProcessError(check, res.rc)
                                    THEN res.out ELSE <<>>])
    IN  IF CalledProcessError(check, res.rc)
        THEN [st |-> print_tail(err(s2, "Command failed: " \o cmd), res.out, TAIL_PI),
              ret |-> FALSE]
        ELSE [st |-> s2, ret |-> res.rc = 0]

\* run(cmd, ...) on host h, the command ending as h makes it end
pi_run_cmd(h, s, cmd, desc, check) == pi_run(s, cmd, desc, check, result(h, s.trace, cmd))

\* check_root()
check_root(s, h) ==
    IF ~h.root
    THEN sys_exit(print(err(s, "This script must be run as root."), "Re-run with: sudo"), 1)
    ELSE s

\* update_system()
update_system(s, h) ==
    LET s1 == emit(s, Msg("step", "STEP 1/6"))
        r1 == pi_run_cmd(h, s1, "apt-get update -y", "Running apt-get update", TRUE)
        r2 == pi_run_cmd(h, r1.st, "apt-get upgrade -y", "Running apt-get upgrade", TRUE)
        r3 == pi_run_cmd(h, r2.st, "apt-get install -y curl wget git ca-certificates gnupg lsb-release",
                     "Installing essential utilities", TRUE)
    IN  r3.st

\* install_docker(); docker_after: is_installed("docker") once the installer has run
pi_install_docker(s, h, docker_after) ==
    LET s1 == emit(s, Msg("step", "STEP 2/6"))
        s2 == IF h.has_docker
              THEN pi_run_cmd(h, warn(s1, "Docker is already installed"), "docker --version",
                          "Current Docker version:", TRUE).st
              ELSE LET r1 == pi_run_cmd(h, info(s1, "Downloading Docker install script"),
                                    "curl -fsSL https://get.docker.com -o /tmp/get-docker.sh",
                                    "", TRUE)
                       r2 == pi_run_cmd(h, r1.st, "sh /tmp/get-docker.sh",
                                    "Running official Docker installer", TRUE)
                   IN  IF ~docker_after
                       THEN sys_exit(err(r2.st, "Docker installation failed."), 1)
                       ELSE r2.st
        r3 == pi_run_cmd(h, s2, "usermod -aG docker {user}", "Adding user to the docker group",
                     TRUE)
        r4 == pi_run_cmd(h, r3.st, "systemctl enable docker", "Enabling Docker on boot", TRUE)
        r5 == pi_run_cmd(h, r4.st, "systemctl start docker", "Starting Docker service", TRUE)
        r6 == pi_run_cmd(h, info(r5.st, "Docker installed successfully."), "docker --version",
                     "", TRUE)
    IN  r6.st

\* install_docker_compose()
install_docker_compose(s, h) ==
    LET s1 == emit(s, Msg("step", "STEP 3/6"))
        r1 == IF h.has_compose_bin
              THEN [st |-> s1, ret |-> TRUE]
              ELSE pi_run_cmd(h, s1, "docker compose version", "", FALSE)
        s2 == IF r1.ret
              THEN warn(r1.st, "Docker Compose is already available")
              ELSE pi_run_cmd(h, r1.st, "apt-get install -y docker-compose-plugin",
                          "Installing docker-compose-plugin", TRUE).st
    IN  pi_run_cmd(h, s2, "docker compose version", "Docker Compose version:", FALSE).st

\* install_node() that takes a version it cannot parse as "do not upgrade"
pi_install_node_parse_failure_skips(s, h) ==
    LET s1 == emit(s, Msg("step", "STEP 4/6"))
        p  == py_int(major_token(h.node_stdout))
        skip == h.has_node /\ (~p.ok \/ p.val >= MIN_NODE_MAJOR)
        s2 == IF ~h.has_node \/ ~p.ok THEN s1
              ELSE IF p.val >= MIN_NODE_MAJOR
              THEN warn(s1, "Node.js already installed")
              ELSE pi_run_cmd(h, warn(s1, "Node.js is too old (need >=18). Upgrading"),
                          "apt-get remove -y nodejs", "Removing old Node.js", TRUE).st
        s3 == IF ~skip
              THEN LET r2 == pi_run_cmd(h, s2, "curl -fsSL https://deb.nodesource.com/setup_20.x | bash -",
                                    "Adding NodeSource repo (Node 20 LTS)", TRUE)
                   IN  pi_run_cmd(h, r2.st, "apt-get install -y nodejs", "Installing Node.js",
                              TRUE).st
              ELSE s2
        r4 == pi_run_cmd(h, s3, "node --version", "Node version:", TRUE)
        r5 == pi_run_cmd(h, r4.st, "npm --version", "npm version:", TRUE)
    IN  r5.st

\* install_node()
pi_install_node(s, h) ==
    LET s1 == emit(s, Msg("step", "STEP 4/6"))
        p  == py_int(major_token(h.node_stdout))
        skip == h.has_node /\ p.ok /\ p.val >= MIN_NODE_MAJOR
        s2 == IF ~h.has_node \/ ~p.ok THEN s1
              ELSE IF p.val >= MIN_NODE_MAJOR
              THEN warn(s1, "Node.js already installed")
              ELSE pi_run_cmd(h, warn(s1, "Node.js is too old (need >=18). Upgrading"),
                          "apt-get remove -y nodejs", "Removing old Node.js", TRUE).st
        needs_install == ~skip
        s3 == IF needs_install
              THEN LET r2 == pi_run_cmd(h, s2, "curl -fsSL https://deb.nodesource.com/setup_20.x | bash -",
                                    "Adding NodeSource repo (Node 20 LTS)", TRUE)
                   IN  pi_run_cmd(h, r2.st, "apt-get install -y nodejs", "Installing Node.js",
                              TRUE).st
              ELSE s2
        r4 == pi_run_cmd(h, s3, "node --version", "Node version:", TRUE)
        r5 == pi_run_cmd(h, r4.st, "npm --version", "npm version:", TRUE)
    IN  r5.st

\* install_claude_code(); claude_after: is_installed("claude") once npm has run
install_claude_code(s, h, claude_after) ==
    LET s1 == emit(s, Msg("step", "STEP 5/6"))
        s2 == IF h.has_claude
              THEN pi_run_cmd(h, warn(s1, "Claude Code CLI already installed"),
                          "npm update -g @anthropic-ai/claude-code",
                          "Updating Claude Code", TRUE).st
              ELSE pi_run_cmd(h, s1, "npm install -g @anthropic-ai/claude-code",
                          "Installing Claude Code via npm", TRUE).st
    IN  IF claude_after
        THEN info(s2, "Claude Code CLI is ready.")
        ELSE info(warn(s2, "Claude Code CLI could not be verified on PATH."),
                  "You may need to open a new terminal")

\* install_python_sdk()
pi_install_python_sdk(s, h) ==
    LET s1 == emit(s, Msg("step", "STEP 6/6"))
        r1 == pi_run_cmd(h, s1, "apt-get install -y python3-pip python3-venv",
                     "Ensuring pip & venv are available", TRUE)
        r2 == pi_run_cmd(h, r1.st, "pip3 install --user anthropic",
                     "Installing anthropic SDK for user", FALSE)
    IN  info(r2.st, "Anthropic Python SDK installed.")

\* configure_api_key(): already configured
bashrc_configured(f) == f.exists /\ Contains(f.text, VAR_NAME)


\* ------------------------------------------- setup_raspberry_pi.py: actions
PiInit ==
    /\ pc = "idle"
    /\ argv = <<>>
    /\ host = BaseHost
    /\ trace = <<>>
    /\ exit_code = RUNNING
    /\ key = NO_KEY
    /\ env_file = ABSENT
    /\ bashrc \in InitBashrcs
    /\ artifacts = {}
    /\ runs = 0
    /\ other = "idle"

\* sudo python3 setup_raspberry_pi.py on some host; the files stay as they are
PiInvoke ==
    /\ pc \in {"idle", "exited"}
    /\ runs < MaxRuns
    /\ \E h \in PiHosts : host' = h
    /\ pc' = "pi_main"
    /\ trace' = <<>>
    /\ exit_code' = RUNNING
    /\ key' = NO_KEY
    /\ runs' = runs + 1
    /\ UNCHANGED <<argv, env_file, bashrc, artifacts, other>>

\* main(): banner() and check_root()
PiCheckRoot ==
    /\ pc = "pi_main"
    /\ Advance(check_root(print(Proc, "Docker + Claude Setup Script"), host), "pi_update_system")
    /\ UNCHANGED <<argv, host, key, env_file, bashrc, artifacts, runs, other>>

PiUpdateSystem ==
    /\ pc = "pi_update_system"
    /\ Advance(update_system(Proc, host), "pi_install_docker")
    /\ UNCHANGED <<argv, host, key, env_file, bashrc, artifacts, runs, other>>

PiInstallDocker ==
    /\ pc = "pi_install_docker"
    /\ \E docker_after \in BOOLEAN :
        Advance(pi_install_docker(Proc, host, docker_after), "pi_install_docker_compose")
    /\ UNCHANGED <<argv, host, key, env_file, bashrc, artifacts, runs, other>>

PiInstallDockerCompose ==
    /\ pc = "pi_install_docker_compose"
    /\ Advance(install_docker_compose(Proc, host), "pi_install_node")
    /\ UNCHANGED <<argv, host, key, env_file, bashrc, artifacts, runs, other>>

PiInstallNode ==
    /\ pc = "pi_install_node"
    /\ Advance(pi_install_node(Proc, host), "pi_install_claude_code")
    /\ UNCHANGED <<argv, host, key, env_file, bashrc, artifacts, runs, other>>

PiInstallClaudeCode ==
    /\ pc = "pi_install_claude_code"
    /\ \E claude_after \in BOOLEAN :
        Advance(install_claude_code(Proc, host, claude_after), "pi_install_python_sdk")
    /\ UNCHANGED <<argv, host, key, env_file, bashrc, artifacts, runs, other>>

PiInstallPythonSdk ==
    /\ pc = "pi_install_python_sdk"
    /\ Advance(pi_install_python_sdk(Proc, host), "pi_configure_api_key")
    /\ UNCHANGED <<argv, host, key, env_file, bashrc, artifacts, runs, other>>

\* configure_api_key(), up to the prompt: the test of .bashrc
PiConfigureApiKeyTest ==
    /\ pc = "pi_configure_api_key"
    /\ IF bashrc_configured(bashrc)
       THEN Advance(warn(Proc, "ANTHROPIC_API_KEY already present in .bashrc"),
                    "pi_print_summary")
       ELSE Advance(emit(print(Proc, "API Key Setup"), Msg("input", "Paste your API key")),
                    "pi_prompt")
    /\ UNCHANGED <<argv, host, key, env_file, bashrc, artifacts, runs, other>>

\* configure_api_key(), from the answer on: input() returns, the export is
\* appended to .bashrc as it is now
PiConfigureApiKeyInput ==
    /\ pc = "pi_prompt"
    /\ \E inp \in PiInputs :
        LET k == strip(inp.line)
            existing == IF bashrc.exists THEN bashrc.text ELSE <<>>
        IN  IF inp.eof
            THEN /\ Advance(sys_exit(emit(Proc, Msg("traceback", "EOFError")), 1), "exited")
                 /\ UNCHANGED <<key, bashrc>>
            ELSE IF k # <<>>
            THEN /\ key' = [read |-> TRUE, line |-> inp.line, text |-> k]
                 /\ bashrc' = File(existing \o export_lines(k))
                 /\ Advance(info(emit(Proc, Msg("append", ".bashrc")),
                                 "API key saved to ~/.bashrc"), "pi_print_summary")
            ELSE /\ key' = [read |-> TRUE, line |-> inp.line, text |-> k]
                 /\ Advance(print(warn(Proc, "Skipped. Set it later with:"), "echo export"),
                            "pi_print_summary")
                 /\ UNCHANGED bashrc
    /\ UNCHANGED <<argv, host, env_file, artifacts, runs, other>>

\* A second invocation of the script on the same home, seen through the
\* .bashrc it shares with this process.  Its configure_api_key() up to the
\* prompt: with the variable in .bashrc it returns, otherwise it waits in
\* input().
PiOtherTest ==
    /\ other = "idle"
    /\ runs < MaxRuns
    /\ runs' = runs + 1
    /\ other' = IF bashrc_configured(bashrc) THEN "idle" ELSE "prompt"
    /\ UNCHANGED <<pc, argv, host, trace, exit_code, key, env_file, bashrc, artifacts>>

\* Its configure_api_key() from the answer on: the export is appended to
\* .bashrc as it is now
PiOtherAnswer ==
    /\ other = "prompt"
    /\ \E line \in PiOtherKeyLines :
        LET k == strip(line)
            existing == IF bashrc.exists THEN bashrc.text ELSE <<>>
        IN  bashrc' = IF k # <<>> THEN File(existing \o export_lines(k)) ELSE bashrc
    /\ other' = "idle"
    /\ UNCHANGED <<pc, argv, host, trace, exit_code, key, env_file, artifacts, runs>>

\* print_summary(), then the script ends
PiPrintSummary ==
    /\ pc = "pi_print_summary"
    /\ Advance(sys_exit(print(Proc, "SETUP COMPLETE!"), 0), "exited")
    /\ UNCHANGED <<argv, host, key, env_file, bashrc, artifacts, runs, other>>

\* main(): the steps in the order main() calls them
main ==
    \/ PiCheckRoot
    \/ PiUpdateSystem
    \/ PiInstallDocker
    \/ PiInstallDockerCompose
    \/ PiInstallNode
    \/ PiInstallClaudeCode
    \/ PiInstallPythonSdk
    \/ PiConfigureApiKeyTest
    \/ PiConfigureApiKeyInput
    \/ PiPrintSummary

PiNext ==
    \/ PiInvoke
    \/ main
    \/ PiOtherTest
    \/ PiOtherAnswer

SpecPi == PiInit /\ [][PiNext]_vars


\* ================================================================== claims
\* events of a process that change the host or ask the user
Mutating(e) == e.ev \in {"cmd", "write", "append", "makedirs", "chmod", "input"}
RequiredFailAt(i) == trace[i].ev = "cmd" /\ trace[i].check /\ trace[i].rc # 0
OptionalFailAt(i) == trace[i].ev = "cmd" /\ ~trace[i].check /\ trace[i].rc # 0
PingAt(i) == trace[i].ev = "cmd" /\ trace[i].arg = "ping -c1 -W3 google.com"
\* the spellings of the keyword setup that differ from it in case only
SetupSpellings ==
    {[i \in 1..Len(SETUP_WORD) |-> IF i \in caps THEN SETUP_CAPITALS[i] ELSE SETUP_WORD[i]] :
        caps \in SUBSET (1..Len(SETUP_WORD))}
\* the first argument is not the keyword setup, case ignored
NotSetupArg == argv = <<>> \/ argv[1] \notin SetupSpellings
\* occurrences of needle in hay
CountOcc(hay, needle) ==
    Cardinality({i \in 1..(Len(hay) - Len(needle) + 1) :
                    SubSeq(hay, i, i + Len(needle) - 1) = needle})
Blank(line) == \A i \in 1..Len(line) : line[i] \in WHITESPACE
WritesIn(tr) == {i \in 1..Len(tr) : tr[i].ev \in {"write", "append"}}

\* C1: in run.py, once a command run with check=True has exited non-zero the
\* process has ended with exit status 1, and nothing but the error report
\* (the "Failed" line and the tail of the command's output) follows the
\* command in the process's effects: no later command, file write or prompt.
C1_RequiredFailureAborts ==
    \A i \in 1..Len(trace) :
        RequiredFailAt(i) =>
            /\ pc = "exited"
            /\ exit_code = 1
            /\ \A j \in (i + 1)..Len(trace) : trace[j].ev \in {"err", "tail"}

\* a required command of a late step (npm) failed after earlier steps had run
C1_Witness ==
    /\ pc = "exited"
    /\ exit_code = 1
    /\ \E i \in 1..Len(trace) :
        /\ RequiredFailAt(i)
        /\ trace[i].arg = "npm install -g @anthropic-ai/claude-code --loglevel=warn"

\* C2: in run.py, a command run with check=False that exits non-zero does not
\* end the process: run() returns and the caller goes on with its next
\* statement, whose status line (ok or warn) follows the command.
C2_OptionalFailureContinues ==
    \A i \in 1..Len(trace) :
        OptionalFailAt(i) =>
            /\ i < Len(trace)
            /\ trace[i + 1].ev \in {"ok", "warn"}

\* the SDK install failed and the workflow reached the summary with status 0
C2_Witness ==
    /\ pc = "exited"
    /\ exit_code = 0
    /\ \E i \in 1..Len(trace) :
        OptionalFailAt(i) /\ trace[i].arg = "pip3 install --user anthropic"

\* C3: in run.py, a setup run on a host with less than 4 GB free ends in
\* preflight() with exit status 1, having run no command, written no file and
\* asked nothing.
C3_LowDiskAbortsBeforeInstallers ==
    (/\ ~NotSetupArg
     /\ pc \notin {"idle", "main", "preflight"}
     /\ free_gb(host) < MIN_FREE_GB)
    => /\ pc = "exited"
       /\ exit_code = 1
       /\ \A i \in 1..Len(trace) : ~Mutating(trace[i])

\* preflight() has ended the process on a host with 3 GB free
C3_Witness ==
    /\ pc = "exited"
    /\ exit_code = 1
    /\ host.root
    /\ free_gb(host) = 3
    /\ trace # <<>>
    /\ trace[Len(trace)].arg = "Disk: need at least 4GB"

\* C4: in run.py, once the ping of preflight() has exited non-zero the
\* process has reported "No internet connection" and ended with exit status 1
\* and no command follows the ping.
C4_NoNetworkAborts ==
    \A i \in 1..Len(trace) :
        (PingAt(i) /\ trace[i].rc # 0) =>
            /\ pc = "exited"
            /\ exit_code = 1
            /\ \E j \in (i + 1)..Len(trace) :
                trace[j].ev = "err" /\ trace[j].arg = "No internet connection"
            /\ \A j \in (i + 1)..Len(trace) : trace[j].ev # "cmd"

\* a step that is scaffold(): of this process, or of the second invocation
ScaffoldStep ==
    \/ pc = "scaffold" /\ pc' # pc
    \/ other = "idle" /\ other' = "prompt"

\* this process's step has logged a write of .env
EnvWriteLogged ==
    \E i \in WritesIn(trace') : i > Len(trace) /\ trace'[i].arg = ".env"

\* C5: in run.py, in every run, scaffold() leaves an existing .env without the
\* placeholder as it is, and when scaffold() changes or writes .env the file
\* was absent or held the placeholder and becomes the two placeholder lines.
C5_ScaffoldKeepsUserEnv ==
    [][ScaffoldStep =>
        /\ (env_file.exists /\ ~Contains(env_file.text, PLACEHOLDER))
              => (env_file' = env_file /\ ~EnvWriteLogged)
        /\ (env_file' # env_file \/ EnvWriteLogged)
              => /\ ~env_file.exists \/ Contains(env_file.text, PLACEHOLDER)
                 /\ env_file' = File(ENV_COMMENT_LINE \o ENV_PLACEHOLDER_LINE)]_vars

\* second run: scaffold() has run over the .env that the first run's key wrote
C5_Witness ==
    /\ runs = 2
    /\ pc = "ask_key"
    /\ env_file = File(env_line(KEY_A))
    /\ \A i \in WritesIn(trace) : trace[i].arg # ".env"

\* a step that is ask_key() from the answer on: of this process, or of the
\* second invocation
AnswerStep ==
    \/ pc = "ask_prompt" /\ pc' # pc
    \/ other = "prompt" /\ other' = "idle"

\* C6: in run.py, no step changes a .bashrc that contains ANTHROPIC_API_KEY,
\* any change of .bashrc is made by ask_key() and appends the two export
\* lines once, and .bashrc never holds more than one export block written by
\* the tool.
C6_BashrcExportOnce ==
    [][/\ CountOcc(bashrc.text, BASHRC_PREFIX) <= 1
       /\ CountOcc(bashrc'.text, BASHRC_PREFIX) <= 1
       /\ Contains(bashrc.text, VAR_NAME) => bashrc' = bashrc
       /\ bashrc' # bashrc =>
             /\ AnswerStep
             /\ \E line \in KeyLines \cup OtherKeyLines :
                    bashrc'.text = bashrc.text \o export_lines(strip(line))
             /\ pc' # pc => bashrc'.text = bashrc.text \o export_lines(key'.text)
             /\ CountOcc(bashrc'.text, BASHRC_PREFIX) = 1]_vars

\* second run: a different key was entered and nothing was appended to the
\* .bashrc that holds the first run's export
C6_Witness ==
    /\ runs = 2
    /\ pc = "summary"
    /\ key.text = KEY_B
    /\ bashrc.exists
    /\ Contains(bashrc.text, export_lines(KEY_A))
    /\ \A i \in WritesIn(trace) : trace[i].arg # ".bashrc"

\* C7: in run.py, when the line read at the API-key prompt is empty or all
\* whitespace, ask_key() leaves .env and .bashrc as they were and writes no
\* file.
C7_EmptyKeyWritesNothing ==
    [][(pc = "ask_prompt" /\ key'.read /\ Blank(key'.line)) =>
        /\ env_file' = env_file
        /\ bashrc' = bashrc
        /\ WritesIn(trace') = WritesIn(trace)
        /\ pc' = "summary"]_vars

\* fresh host: a whitespace-only line was entered and .env holds the placeholder
C7_Witness ==
    /\ runs = 1
    /\ pc = "summary"
    /\ key.read
    /\ key.line = KEY_BLANK
    /\ env_file = File(ENV_COMMENT_LINE \o ENV_PLACEHOLDER_LINE)
    /\ ~bashrc.exists

\* C8: in run.py, a process started with no argument or with a first argument
\* other than setup (case ignored) only prints the usage text and ends with
\* exit status 0: its only effect is that text.
C8_OtherArgumentOnlyUsage ==
    (NotSetupArg /\ pc \notin {"idle", "main"}) =>
        /\ pc \in {"usage", "exited"}
        /\ pc = "usage" => (trace = <<>> /\ exit_code = RUNNING)
        /\ pc = "exited" => (trace = <<Msg("print", "Usage:")>> /\ exit_code = 0)

\* a process started with the argument "setups" has printed usage and ended
C8_Witness ==
    /\ argv = <<ARG_LONGER>>
    /\ pc = "exited"
    /\ exit_code = 0
    /\ trace = <<Msg("print", "Usage:")>>

\* C9: in run.py, after ask_key() has completed with a non-empty key K, .env
\* is exactly ANTHROPIC_API_KEY=K and .bashrc exports ANTHROPIC_API_KEY with
\* the value K.
C9_KeyInBothFiles ==
    (pc = "summary" /\ key.read /\ key.text # <<>>) =>
        /\ env_file = File(env_line(key.text))
        /\ bashrc.exists
        /\ Contains(bashrc.text, export_lines(key.text))

\* C10: in setup_raspberry_pi.py, once a command run with check=True has
\* exited non-zero the process has ended with a non-zero exit status and no
\* later command of main() follows it.
C10_PiRequiredFailureAborts ==
    \A i \in 1..Len(trace) :
        RequiredFailAt(i) =>
            /\ pc = "exited"
            /\ exit_code \notin {RUNNING, 0}
            /\ \A j \in (i + 1)..Len(trace) : trace[j].ev # "cmd"


\* the command cmd is among the effects of the process
Ran(cmd) == \E i \in 1..Len(trace) : trace[i].ev = "cmd" /\ trace[i].arg = cmd
\* setup_raspberry_pi.py: install_node() has run to its last command on a host
\* where node is on PATH and int() rejects the leading token of its version
PiNodeUnparsedDone ==
    /\ host.has_node
    /\ ~py_int(major_token(host.node_stdout)).ok
    /\ Ran("npm --version")

\* C11 as stated: in setup_raspberry_pi.py, after install_node() on a host
\* whose node version cannot be parsed, neither the removal command nor the
\* NodeSource setup nor the nodejs install has been run.
C11_ParseFailureMeansNoUpgrade ==
    PiNodeUnparsedDone =>
        /\ ~Ran("apt-get remove -y nodejs")
        /\ ~Ran("curl -fsSL https://deb.nodesource.com/setup_20.x | bash -")
        /\ ~Ran("apt-get install -y nodejs")

\* C11 amended: in setup_raspberry_pi.py, after install_node() on a host whose
\* node version cannot be parsed, the parse failure has been passed over
\* without a warning, the removal command has not been run, and the
\* NodeSource setup and the nodejs install have both been run.
C11_ParseFailureInstallsWithoutRemoval ==
    PiNodeUnparsedDone =>
        /\ ~Ran("apt-get remove -y nodejs")
        /\ Ran("curl -fsSL https://deb.nodesource.com/setup_20.x | bash -")
        /\ Ran("apt-get install -y nodejs")
        /\ \A i \in 1..Len(trace) :
              trace[i].ev = "warn" =>
                  trace[i].arg \notin {"Node.js already installed",
                                       "Node.js is too old (need >=18). Upgrading"}

\* node --version printed "vnext.1" and install_node() has finished
C11_Witness ==
    /\ PiNodeUnparsedDone
    /\ host.node_stdout = NODE_GARBAGE
    /\ pc = "pi_install_claude_code"

\* C12: in run.py, whenever install_compose() has reported "Docker Compose
\* ready", the probe `docker compose version` was run before it, and between
\* the two lies the "already installed" warning and no plugin install when
\* the probe exited zero, the plugin install when the probe exited non-zero.
C12_ComposeDetectBeforeInstall ==
    \A k \in 1..Len(trace) :
        (trace[k].ev = "ok" /\ trace[k].arg = "Docker Compose ready") =>
            \E i \in 1..(k - 1) :
                /\ trace[i].ev = "cmd" /\ trace[i].arg = "docker compose version"
                /\ LET installed ==
                           \E j \in (i + 1)..(k - 1) :
                               /\ trace[j].ev = "cmd"
                               /\ trace[j].arg = "apt-get install -y -qq docker-compose-plugin"
                       warned ==
                           \E j \in (i + 1)..(k - 1) :
                               /\ trace[j].ev = "warn"
                               /\ trace[j].arg = "Docker Compose already installed"
                   IN  IF trace[i].rc = 0 THEN warned /\ ~installed
                       ELSE installed /\ ~warned

====
